---- MODULE Spec2Model ----
(***************************************************************************)
(* Model of build_data.py: the batch job that downloads monthly closes for *)
(* SPY and the registry symbols, derives percentage returns, computes the  *)
(* pairwise correlations and writes portfolio_data.json.                   *)
(*                                                                         *)
(* Floats are modelled as exact rationals (kind "num"), plus NaN and the   *)
(* infinities; a Series is a sequence of [t, v] rows, t the month index of *)
(* the row's timestamp.  Prices delivered by the provider are positive.    *)
(***************************************************************************)
EXTENDS Integers, Sequences, FiniteSets, TLC

(* ------------------------------------------------------------------ *)
(* Bounds of the model and constants of the program                   *)
(* ------------------------------------------------------------------ *)

\* How many registry symbols (in registry order) the model downloads.
NumTickers == 2

\* Width of the download window, in months.
NumMonths == 46

\* How many times the job is run on the same dataset (SpecRerun only).
MaxRuns == 2

\* build_data.py:141  "if len(close) < 24"
MinMonths == 24

\* build_data.py:181  "if len(combined) > 12"
MinOverlap == 12

(* ------------------------------------------------------------------ *)
(* The ticker registry                                                *)
(* ------------------------------------------------------------------ *)

\* TICKERS, as the ordered items of the dict: <<symbol, name, sector>>.
TICKERS ==
  << <<"AAPL", "Apple", "Technology">>,
     <<"MSFT", "Microsoft", "Technology">>,
     <<"GOOGL", "Alphabet", "Technology">>,
     <<"AMZN", "Amazon", "Technology">>,
     <<"TSLA", "Tesla", "Technology">>,
     <<"META", "Meta", "Technology">>,
     <<"NVDA", "NVIDIA", "Technology">>,
     <<"CRM", "Salesforce", "Technology">>,
     <<"AMD", "AMD", "Technology">>,
     <<"INTC", "Intel", "Technology">>,
     <<"ORCL", "Oracle", "Technology">>,
     <<"ADBE", "Adobe", "Technology">>,
     <<"JPM", "JPMorgan Chase", "Financials">>,
     <<"BAC", "Bank of America", "Financials">>,
     <<"GS", "Goldman Sachs", "Financials">>,
     <<"V", "Visa", "Financials">>,
     <<"MA", "Mastercard", "Financials">>,
     <<"BRK-B", "Berkshire Hathaway", "Financials">>,
     <<"JNJ", "Johnson & Johnson", "Healthcare">>,
     <<"PFE", "Pfizer", "Healthcare">>,
     <<"UNH", "UnitedHealth", "Healthcare">>,
     <<"LLY", "Eli Lilly", "Healthcare">>,
     <<"MRK", "Merck", "Healthcare">>,
     <<"ABBV", "AbbVie", "Healthcare">>,
     <<"XOM", "ExxonMobil", "Energy">>,
     <<"CVX", "Chevron", "Energy">>,
     <<"COP", "ConocoPhillips", "Energy">>,
     <<"DUK", "Duke Energy", "Utilities">>,
     <<"NEE", "NextEra Energy", "Utilities">>,
     <<"SO", "Southern Co", "Utilities">>,
     <<"AEP", "American Electric Power", "Utilities">>,
     <<"KO", "Coca-Cola", "Consumer Staples">>,
     <<"PEP", "PepsiCo", "Consumer Staples">>,
     <<"PG", "Procter & Gamble", "Consumer Staples">>,
     <<"WMT", "Walmart", "Consumer Staples">>,
     <<"COST", "Costco", "Consumer Staples">>,
     <<"MCD", "McDonald's", "Consumer Discretionary">>,
     <<"DIS", "Disney", "Consumer Discretionary">>,
     <<"NFLX", "Netflix", "Consumer Discretionary">>,
     <<"NKE", "Nike", "Consumer Discretionary">>,
     <<"SBUX", "Starbucks", "Consumer Discretionary">>,
     <<"HD", "Home Depot", "Consumer Discretionary">>,
     <<"LOW", "Lowe's", "Consumer Discretionary">>,
     <<"BA", "Boeing", "Industrials">>,
     <<"CAT", "Caterpillar", "Industrials">>,
     <<"GE", "GE Aerospace", "Industrials">>,
     <<"UPS", "UPS", "Industrials">>,
     <<"RTX", "RTX Corp", "Industrials">>,
     <<"AMT", "American Tower", "Real Estate">>,
     <<"PLD", "Prologis", "Real Estate">>,
     <<"T", "AT&T", "Communications">>,
     <<"VZ", "Verizon", "Communications">>,
     <<"TMUS", "T-Mobile", "Communications">>,
     <<"LIN", "Linde", "Materials">>,
     <<"APD", "Air Products", "Materials">>,
     <<"QQQ", "Nasdaq 100 ETF", "ETF">>,
     <<"IWM", "Russell 2000 ETF", "ETF">>,
     <<"GLD", "Gold ETF", "ETF">>,
     <<"TLT", "20+ Year Treasury ETF", "ETF">>,
     <<"BND", "Total Bond ETF", "ETF">>,
     <<"VNQ", "Real Estate ETF", "ETF">>,
     <<"XLE", "Energy Select ETF", "ETF">> >>

\* ticker_list = list(TICKERS.keys()), cut to the model's bound.
ticker_list == [k \in 1..NumTickers |-> TICKERS[k][1]]

\* all_tickers = ["SPY"] + ticker_list
all_tickers == <<"SPY">> \o ticker_list

\* TICKERS[ticker] -> (name, sector)
Lookup(ticker) ==
  LET k == CHOOSE k \in 1..Len(TICKERS) : TICKERS[k][1] = ticker
  IN  [name |-> TICKERS[k][2], sector |-> TICKERS[k][3]]

(* ------------------------------------------------------------------ *)
(* Floats                                                             *)
(* ------------------------------------------------------------------ *)

Abs(x) == IF x < 0 THEN -x ELSE x

Sign(x) == IF x < 0 THEN -1 ELSE IF x > 0 THEN 1 ELSE 0

RECURSIVE Gcd(_, _)
Gcd(a, b) == IF b = 0 THEN Abs(a) ELSE Gcd(b, a % b)

\* float('nan')
NaN == [kind |-> "nan", num |-> 0, den |-> 1]

\* +inf / -inf, the sign kept in num
Inf(s) == [kind |-> "inf", num |-> s, den |-> 1]

\* The finite float n/d (d > 0), in lowest terms.
Num(n, d) ==
  LET g == Gcd(n, d)
  IN  [kind |-> "num", num |-> n \div g, den |-> d \div g]

\* pd.notna / the complement of what dropna drops
notna(v) == v.kind # "nan"

\* Variant: the ratio is taken the wrong way round, prev / cur - 1.
ChangeSwapped(cur, prev) ==
  IF ~notna(cur) \/ ~notna(prev) THEN NaN
  ELSE IF cur.kind = "inf" \/ prev.kind = "inf" THEN NaN
  ELSE IF cur.num = 0
       THEN (IF prev.num = 0 THEN NaN ELSE Inf(Sign(prev.num)))
  ELSE Num(prev.num * cur.den - cur.num * prev.den, cur.num * prev.den)

\* x / y - 1 of two finite floats, as numpy divides: 0/0 is NaN, x/0 is +-inf.
Change(cur, prev) ==
  IF ~notna(cur) \/ ~notna(prev) THEN NaN
  ELSE IF cur.kind = "inf" \/ prev.kind = "inf" THEN NaN
  ELSE IF prev.num = 0
       THEN (IF cur.num = 0 THEN NaN ELSE Inf(Sign(cur.num)))
  ELSE Num(cur.num * prev.den - prev.num * cur.den, prev.num * cur.den)

\* v * k for an integer k > 0
Times(v, k) == IF v.kind = "num" THEN Num(v.num * k, v.den) ELSE v

RECURSIVE Pow10(_)
Pow10(n) == IF n = 0 THEN 1 ELSE 10 * Pow10(n - 1)

\* The integer nearest to n/d (d > 0), ties to the even one.
RoundHalfEven(n, d) ==
  LET a == Abs(n)
      q == a \div d
      r == a % d
      up == (2 * r > d) \/ (2 * r = d /\ q % 2 = 1)
  IN  Sign(n) * (IF up THEN q + 1 ELSE q)

\* round(float(v), ndigits)
round(v, ndigits) ==
  IF v.kind = "num"
  THEN Num(RoundHalfEven(v.num * Pow10(ndigits), v.den), Pow10(ndigits))
  ELSE v

(* ------------------------------------------------------------------ *)
(* Series                                                             *)
(* ------------------------------------------------------------------ *)

\* Series.dropna(): the rows whose value is not NaN, in order.
dropna(s) == SelectSeq(s, LAMBDA row : notna(row.v))

\* Series.pct_change(): row k holds s[k]/s[k-1] - 1, the first row NaN.
pct_change(s) ==
  [k \in 1..Len(s) |->
     [t |-> s[k].t,
      v |-> IF k = 1 THEN NaN ELSE Change(s[k].v, s[k - 1].v)]]

\* series * 100
Scale(s, k) == [i \in 1..Len(s) |-> [t |-> s[i].t, v |-> Times(s[i].v, k)]]

\* close.pct_change().dropna() * 100
Returns(close) == Scale(dropna(pct_change(close)), 100)

Pad2(n) == IF n < 10 THEN "0" \o ToString(n) ELSE ToString(n)

\* d.strftime("%Y-%m") of the timestamp of month index t; the window opens
\* in January 2006.
strftime(t) == ToString(2006 + ((t - 1) \div 12)) \o "-" \o Pad2(((t - 1) % 12) + 1)

\* [d.strftime("%Y-%m") for d in ret.index]
DatesOf(ret) == [k \in 1..Len(ret) |-> strftime(ret[k].t)]

\* [round(float(r), 4) for r in ret.values]
RoundedOf(ret) == [k \in 1..Len(ret) |-> round(ret[k].v, 4)]

(* ------------------------------------------------------------------ *)
(* What the provider can return                                       *)
(* ------------------------------------------------------------------ *)

Months == 1..NumMonths

\* Price paths, by month: "flat" never moves, "saw" alternates 1, 2,
\* "tri" cycles 3, 1, 2.
Price(pat, m) ==
  CASE pat = "flat" -> 2
    [] pat = "saw"  -> 1 + (m % 2)
    [] pat = "tri"  -> <<3, 1, 2>>[(m % 3) + 1]

\* A column with a close for the months first..last except those in gaps.
Obs(first, last, gaps, pat) ==
  [kind |-> "ok",
   rows |-> [m \in Months |->
              [t |-> m,
               v |-> IF m >= first /\ m <= last /\ m \notin gaps
                     THEN Num(Price(pat, m), 1) ELSE NaN]]]

\* df["Close"][sym] raises KeyError
Absent == [kind |-> "absent", rows |-> << >>]

\* a column whose processing raises another exception
Bad == [kind |-> "bad", rows |-> << >>]

TickerColumns ==
  { Absent, Bad,
    Obs(1, MinMonths - 1, {}, "saw"),
    Obs(1, MinMonths, {}, "saw"),
    Obs(1, MinMonths, {}, "flat"),
    Obs(1, MinMonths + 1, {10}, "tri"),
    Obs(NumMonths - MinMonths, NumMonths - 1, {}, "tri"),
    Obs(NumMonths - MinMonths + 1, NumMonths, {}, "saw") }

SpyColumns ==
  { Absent, Bad,
    Obs(1, 0, {}, "flat"),
    Obs(1, MinOverlap + 1, {}, "saw"),
    Obs(1, MinOverlap + 2, {}, "saw"),
    Obs(1, NumMonths, {7}, "tri") }

\* yf.download(all_tickers, ...): the frames it can hand back.  An empty
\* frame has no columns; otherwise SPY and every symbol get a column each.
Frame(spy, cols) ==
  [empty |-> FALSE,
   close |-> [s \in {"SPY"} \cup DOMAIN cols |-> IF s = "SPY" THEN spy ELSE cols[s]]]

TickerSet == {ticker_list[k] : k \in 1..NumTickers}

NoFrame == [empty |-> TRUE, close |-> [s \in {"SPY"} \cup TickerSet |-> Absent]]

(* ------------------------------------------------------------------ *)
(* Dicts, as the ordered sequence of their <<key, value>> items        *)
(* ------------------------------------------------------------------ *)

Keys(d) == [k \in 1..Len(d) |-> d[k][1]]

KeySet(d) == {d[k][1] : k \in 1..Len(d)}

Get(d, key) == d[CHOOSE k \in 1..Len(d) : d[k][1] = key][2]

\* d[key] = value: replaces in place, or appends a new key at the end.
DictSet(d, key, value) ==
  IF key \in KeySet(d)
  THEN [k \in 1..Len(d) |-> IF d[k][1] = key THEN <<key, value>> ELSE d[k]]
  ELSE Append(d, <<key, value>>)

(* ------------------------------------------------------------------ *)
(* Pearson correlation                                                *)
(* ------------------------------------------------------------------ *)

\* s[lo] + ... + s[hi], summed by halves
RECURSIVE Sum(_, _, _)
Sum(s, lo, hi) ==
  IF lo > hi THEN 0
  ELSE IF lo = hi THEN s[lo]
  ELSE LET mid == (lo + hi) \div 2
       IN  Sum(s, lo, mid) + Sum(s, mid + 1, hi)

Lcm(a, b) == (a \div Gcd(a, b)) * b

\* The least common denominator of vs[lo..hi]
RECURSIVE LcmDen(_, _, _)
LcmDen(vs, lo, hi) ==
  IF lo > hi THEN 1
  ELSE IF lo = hi THEN vs[lo].den
  ELSE LET mid == (lo + hi) \div 2
       IN  Lcm(LcmDen(vs, lo, mid), LcmDen(vs, mid + 1, hi))

\* The greatest common divisor of s[lo..hi]
RECURSIVE GcdOf(_, _, _)
GcdOf(s, lo, hi) ==
  IF lo > hi THEN 0
  ELSE IF lo = hi THEN Abs(s[lo])
  ELSE LET mid == (lo + hi) \div 2
       IN  Gcd(GcdOf(s, lo, mid), GcdOf(s, mid + 1, hi))

\* A sequence of finite floats as integers, up to a positive common factor
\* (the coefficient does not depend on it).
IntVec(vs) ==
  LET l == LcmDen(vs, 1, Len(vs))
      raw == [k \in 1..Len(vs) |-> vs[k].num * (l \div vs[k].den)]
      g == GcdOf(raw, 1, Len(vs))
  IN  IF g = 0 THEN raw ELSE [k \in 1..Len(vs) |-> raw[k] \div g]

\* An undefined coefficient
NaNCoef == [kind |-> "nan", cov |-> 0, vx |-> 1, vy |-> 1]

\* The coefficient cov / sqrt(vx * vy) of the paired finite samples xs, ys;
\* NaN when there is no sample or either side has no variance.
Pearson(xs, ys) ==
  LET n == Len(xs)
      x == IntVec(xs)
      y == IntVec(ys)
      sx == Sum(x, 1, n)
      sy == Sum(y, 1, n)
      sxx == Sum([k \in 1..n |-> x[k] * x[k]], 1, n)
      syy == Sum([k \in 1..n |-> y[k] * y[k]], 1, n)
      sxy == Sum([k \in 1..n |-> x[k] * y[k]], 1, n)
      vx == n * sxx - sx * sx
      vy == n * syy - sy * sy
  IN  IF n = 0 \/ vx = 0 \/ vy = 0 THEN NaNCoef
      ELSE [kind |-> "num", cov |-> n * sxy - sx * sy, vx |-> vx, vy |-> vy]

\* a/b against c/d (a, c >= 0; b, d > 0): -1, 0 or 1, by continued fractions.
RECURSIVE CmpFrac(_, _, _, _)
CmpFrac(a, b, c, d) ==
  LET qa == a \div b
      qc == c \div d
      ra == a % b
      rc == c % d
  IN  IF qa # qc THEN (IF qa < qc THEN -1 ELSE 1)
      ELSE IF ra = 0 /\ rc = 0 THEN 0
      ELSE IF ra = 0 THEN -1
      ELSE IF rc = 0 THEN 1
      ELSE CmpFrac(d, rc, b, ra)

\* Whether |c| * scale rounds (ties to even) to at least k.
Reaches(c, scale, k) ==
  \/ k = 0
  \/ LET cmp == CmpFrac(c.cov * c.cov, c.vx * c.vy,
                        (2 * k - 1) * (2 * k - 1), 4 * scale * scale)
     IN  cmp = 1 \/ (cmp = 0 /\ k % 2 = 0)

RECURSIVE Nearest(_, _, _, _)
Nearest(c, scale, lo, hi) ==
  IF lo >= hi THEN lo
  ELSE LET mid == (lo + hi + 1) \div 2
       IN  IF Reaches(c, scale, mid) THEN Nearest(c, scale, mid, hi)
           ELSE Nearest(c, scale, lo, mid - 1)

\* round(float(val), ndigits) of a coefficient
RoundCoef(c, ndigits) ==
  IF c.kind # "num" THEN NaN
  ELSE LET scale == Pow10(ndigits)
       IN  Num(Sign(c.cov) * Nearest(c, scale, 0, 2 * scale), scale)

IndexOf(s) == {s[k].t : k \in 1..Len(s)}

\* The value of series s at timestamp t; NaN where s has no such row
\* (what aligning on a joint index fills in).
ValueAt(s, t) ==
  IF \E k \in 1..Len(s) : s[k].t = t
  THEN s[CHOOSE k \in 1..Len(s) : s[k].t = t].v
  ELSE NaN

\* The timestamps of S in increasing order.
SortedSeq(S) ==
  IF S = {} THEN << >>
  ELSE LET lo == CHOOSE m \in S : \A o \in S : m <= o
           hi == CHOOSE m \in S : \A o \in S : m >= o
       IN  SelectSeq([k \in 1..(hi - lo + 1) |-> lo + k - 1], LAMBDA month : month \in S)

\* pd.DataFrame(returns_dict): the columns aligned on the sorted union of
\* their indexes.
DataFrame(rd) ==
  LET index == SortedSeq(UNION {IndexOf(rd[k][2]) : k \in 1..Len(rd)})
  IN  [index |-> index,
       columns |-> Keys(rd),
       col |-> [key \in KeySet(rd) |->
                 [k \in 1..Len(index) |-> ValueAt(Get(rd, key), index[k])]]]

\* Variant: the matrix asks for more than 12 common rows (min_periods = 13).
CorrAtMinPeriods(frame, t1, t2) ==
  LET rows == [k \in 1..Len(frame.index) |->
                 [x |-> frame.col[t1][k], y |-> frame.col[t2][k]]]
      both == SelectSeq(rows, LAMBDA row : row.x.kind = "num" /\ row.y.kind = "num")
  IN  IF Len(both) <= MinOverlap THEN NaNCoef
      ELSE Pearson([k \in 1..Len(both) |-> both[k].x],
                   [k \in 1..Len(both) |-> both[k].y])

\* ret_df.corr().loc[t1, t2]: Pearson over the rows where both columns are
\* finite (pairwise complete, min_periods = 1).
CorrAt(frame, t1, t2) ==
  LET rows == [k \in 1..Len(frame.index) |->
                 [x |-> frame.col[t1][k], y |-> frame.col[t2][k]]]
      both == SelectSeq(rows, LAMBDA row : row.x.kind = "num" /\ row.y.kind = "num")
  IN  Pearson([k \in 1..Len(both) |-> both[k].x],
              [k \in 1..Len(both) |-> both[k].y])

\* pd.concat([a, b], axis=1).dropna(): the rows present in both series.
Combined(a, b) ==
  LET index == SortedSeq(IndexOf(a) \cup IndexOf(b))
      rows == [k \in 1..Len(index) |->
                 [t |-> index[k], x |-> ValueAt(a, index[k]), y |-> ValueAt(b, index[k])]]
  IN  SelectSeq(rows, LAMBDA row : notna(row.x) /\ notna(row.y))

\* combined.iloc[:, 0].corr(combined.iloc[:, 1])
SeriesCorr(combined) ==
  IF \E k \in 1..Len(combined) : combined[k].x.kind = "inf" \/ combined[k].y.kind = "inf"
  THEN NaNCoef
  ELSE Pearson([k \in 1..Len(combined) |-> combined[k].x],
               [k \in 1..Len(combined) |-> combined[k].y])

\* Variant: the guard is lost and every coefficient is stored.
pd_notnaAlways(val) == TRUE

\* pd.notna(val), the guard before a coefficient is stored
pd_notna(val) == val.kind # "nan"

\* f"{t1},{t2}"
PairKey(t1, t2) == t1 \o "," \o t2

\* Variant: every off-diagonal cell is emitted.
UpperTriangleBoth(i, j) == i # j

\* The guard of the double loop: only the upper triangle is emitted.
UpperTriangle(i, j) == i < j

\* The double loop over enumerate(valid_tickers), row by row; k counts the
\* (i, j) iterations done so far.
RECURSIVE MatrixLoop(_, _, _, _)
MatrixLoop(valid_tickers, frame, k, acc) ==
  LET n == Len(valid_tickers)
      i == (k \div n) + 1
      j == (k % n) + 1
      t1 == valid_tickers[i]
      t2 == valid_tickers[j]
      val == CorrAt(frame, t1, t2)
  IN  IF k >= n * n THEN acc
      ELSE IF UpperTriangle(i, j) /\ pd_notna(val)
           THEN MatrixLoop(valid_tickers, frame, k + 1,
                           DictSet(acc, PairKey(t1, t2), RoundCoef(val, 3)))
           ELSE MatrixLoop(valid_tickers, frame, k + 1, acc)

\* Variant: twelve common periods are let through.
EnoughOverlapInclusive(combined) == Len(combined) >= MinOverlap

\* The guard of the benchmark loop: more than 12 common periods.
EnoughOverlap(combined) == Len(combined) > MinOverlap

\* The benchmark loop over valid_tickers, from position k on.
RECURSIVE SpyLoop(_, _, _, _, _)
SpyLoop(valid_tickers, rd, spy_series, k, acc) ==
  IF k > Len(valid_tickers) THEN acc
  ELSE LET ticker == valid_tickers[k]
           combined == Combined(spy_series, Get(rd, ticker))
           corr_val == SeriesCorr(combined)
       IN  IF EnoughOverlap(combined) /\ pd_notna(corr_val)
           THEN SpyLoop(valid_tickers, rd, spy_series, k + 1,
                        DictSet(acc, PairKey("SPY", ticker), RoundCoef(corr_val, 3)))
           ELSE SpyLoop(valid_tickers, rd, spy_series, k + 1, acc)

(* ------------------------------------------------------------------ *)
(* State                                                              *)
(* ------------------------------------------------------------------ *)

VARIABLES
  pc,            \* where main() stands
  df,            \* the downloaded frame
  spy_ret,       \* the benchmark's return series
  spy_dates,     \* its labels
  spy_returns,   \* its rounded returns
  idx,           \* position of the symbol loop in ticker_list
  returns_dict,  \* ticker -> return series
  ticker_data,   \* ticker -> {name, sector, dates, returns}
  correlations,  \* pair key -> rounded coefficient
  stdout,        \* the progress lines printed, as <<subject, outcome>>
  exit_code,     \* {} while the process runs, then {its exit status}
  file,          \* portfolio_data.json: << >> when absent, else <<document>>
  writes,        \* how often this process opened the file for writing
  run            \* how many processes have been started

vars ==
  <<pc, df, spy_ret, spy_dates, spy_returns, idx, returns_dict, ticker_data,
    correlations, stdout, exit_code, file, writes, run>>

\* The dates datetime.now() can fall on.
Today == {"2026-11-03", "2026-11-04"}

\* Variant: the emptiness test is lost.
IsEmptyNever(frame) == FALSE

\* df.empty
IsEmpty(frame) == frame.empty

\* Variant: the threshold is one too low.
TooShortOffByOne(close) == Len(close) < MinMonths - 1

\* len(close) < 24
TooShort(close) == Len(close) < MinMonths

\* The except clause a column's processing ends in: "KeyError",
\* "Exception", or "none" when the try block runs through.
Raised(col) ==
  CASE col.kind = "absent" -> "KeyError"
    [] col.kind = "bad"    -> "Exception"
    [] OTHER               -> "none"

\* ticker_data[ticker] = {...}
Entry(ticker, ret) ==
  << <<"name", Lookup(ticker).name>>,
     <<"sector", Lookup(ticker).sector>>,
     <<"dates", DatesOf(ret)>>,
     <<"returns", RoundedOf(ret)>> >>

\* Variant: the generation date leaks into the benchmark's dates.
DocumentStamped(generated, dates, returns, tickers, corrs) ==
  << <<"generated", generated>>,
     <<"spy", << <<"dates", Append(dates, generated)>>, <<"returns", returns>> >> >>,
     <<"tickers", tickers>>,
     <<"correlations", corrs>> >>

\* data = {...}
Document(generated, dates, returns, tickers, corrs) ==
  << <<"generated", generated>>,
     <<"spy", << <<"dates", dates>>, <<"returns", returns>> >> >>,
     <<"tickers", tickers>>,
     <<"correlations", corrs>> >>

\* json.dump(data, f): the members are written in the dict's order; the
\* file is kept as the tree of what was written.
json_dump(data) == data

Init ==
  /\ pc = "start"
  /\ df = NoFrame
  /\ spy_ret = << >>
  /\ spy_dates = << >>
  /\ spy_returns = << >>
  /\ idx = 1
  /\ returns_dict = << >>
  /\ ticker_data = << >>
  /\ correlations = << >>
  /\ stdout = << >>
  /\ exit_code = {}
  /\ file = << >>
  /\ writes = 0
  /\ run = 1

(* ------------------------------------------------------------------ *)
(* main()                                                             *)
(* ------------------------------------------------------------------ *)

\* Lines 97-115: the bulk download.
Download ==
  /\ pc = "start"
  /\ \/ df' = NoFrame
     \/ \E spy \in SpyColumns, cols \in [TickerSet -> TickerColumns] :
          df' = Frame(spy, cols)
  /\ pc' = "fetched"
  /\ UNCHANGED <<spy_ret, spy_dates, spy_returns, idx, returns_dict, ticker_data,
                 correlations, stdout, exit_code, file, writes, run>>

\* Lines 117-119: nothing came back.
AbortEmpty ==
  /\ pc = "fetched"
  /\ IsEmpty(df)
  /\ stdout' = Append(stdout, <<"download", "FAILED - no data returned">>)
  /\ exit_code' = {1}
  /\ pc' = "exit"
  /\ UNCHANGED <<df, spy_ret, spy_dates, spy_returns, idx, returns_dict,
                 ticker_data, correlations, file, writes, run>>

\* Variant: the benchmark's handler logs and carries on, as the symbols'
\* handlers do.
ProcessSpyContinues ==
  /\ pc = "fetched"
  /\ ~IsEmpty(df)
  /\ LET col == df.close["SPY"]
         ret == IF Raised(col) # "none" THEN << >> ELSE Returns(dropna(col.rows))
     IN  /\ spy_ret' = ret
         /\ spy_dates' = DatesOf(ret)
         /\ spy_returns' = RoundedOf(ret)
         /\ stdout' = Append(stdout, <<"SPY", IF Raised(col) # "none" THEN "FAILED" ELSE "months">>)
         /\ pc' = "tickers"
  /\ UNCHANGED <<df, idx, returns_dict, ticker_data, correlations, exit_code, file,
                 writes, run>>

\* Lines 121-131: the benchmark; any exception ends the process.
ProcessSpy ==
  /\ pc = "fetched"
  /\ ~IsEmpty(df)
  /\ LET col == df.close["SPY"]
     IN  IF Raised(col) # "none"
         THEN /\ stdout' = Append(stdout, <<"SPY", "FAILED">>)
              /\ exit_code' = {1}
              /\ pc' = "exit"
              /\ UNCHANGED <<spy_ret, spy_dates, spy_returns>>
         ELSE LET spy_close == dropna(col.rows)
                  ret == Returns(spy_close)
              IN  /\ spy_ret' = ret
                  /\ spy_dates' = DatesOf(ret)
                  /\ spy_returns' = RoundedOf(ret)
                  /\ stdout' = Append(stdout, <<"SPY", "months">>)
                  /\ pc' = "tickers"
                  /\ UNCHANGED exit_code
  /\ UNCHANGED <<df, idx, returns_dict, ticker_data, correlations, file, writes, run>>

\* Variant: only KeyError is caught in the loop; any other exception ends
\* the process with a traceback.
ProcessTickerAborts ==
  /\ pc = "tickers"
  /\ idx <= Len(ticker_list)
  /\ LET ticker == ticker_list[idx]
         col == df.close[ticker]
         close == dropna(col.rows)
         ret == Returns(close)
     IN  CASE Raised(col) = "KeyError" ->
                /\ stdout' = Append(stdout, <<ticker, "NOT IN DATA">>)
                /\ UNCHANGED <<ticker_data, returns_dict, pc, exit_code>>
           [] Raised(col) = "Exception" ->
                /\ stdout' = Append(stdout, <<ticker, "Traceback">>)
                /\ pc' = "exit"
                /\ exit_code' = {1}
                /\ UNCHANGED <<ticker_data, returns_dict>>
           [] Raised(col) = "none" /\ TooShort(close) ->
                /\ stdout' = Append(stdout, <<ticker, "skipping">>)
                /\ UNCHANGED <<ticker_data, returns_dict, pc, exit_code>>
           [] OTHER ->
                /\ ticker_data' = DictSet(ticker_data, ticker, Entry(ticker, ret))
                /\ returns_dict' = DictSet(returns_dict, ticker, ret)
                /\ stdout' = Append(stdout, <<ticker, "months">>)
                /\ UNCHANGED <<pc, exit_code>>
  /\ idx' = idx + 1
  /\ UNCHANGED <<df, spy_ret, spy_dates, spy_returns, correlations, file, writes, run>>

\* Lines 137-160: one iteration of the symbol loop.
ProcessTicker ==
  /\ pc = "tickers"
  /\ idx <= Len(ticker_list)
  /\ LET ticker == ticker_list[idx]
         col == df.close[ticker]
         close == dropna(col.rows)
         ret == Returns(close)
     IN  CASE Raised(col) = "KeyError" ->
                /\ stdout' = Append(stdout, <<ticker, "NOT IN DATA">>)
                /\ UNCHANGED <<ticker_data, returns_dict>>
           [] Raised(col) = "Exception" ->
                /\ stdout' = Append(stdout, <<ticker, "FAILED">>)
                /\ UNCHANGED <<ticker_data, returns_dict>>
           [] Raised(col) = "none" /\ TooShort(close) ->
                /\ stdout' = Append(stdout, <<ticker, "skipping">>)
                /\ UNCHANGED <<ticker_data, returns_dict>>
           [] OTHER ->
                /\ ticker_data' = DictSet(ticker_data, ticker, Entry(ticker, ret))
                /\ returns_dict' = DictSet(returns_dict, ticker, ret)
                /\ stdout' = Append(stdout, <<ticker, "months">>)
  /\ idx' = idx + 1
  /\ UNCHANGED <<pc, df, spy_ret, spy_dates, spy_returns, correlations, exit_code,
                 file, writes, run>>

\* Lines 162-175: the symbol-by-symbol matrix, once the loop is through.
CorrelationMatrix ==
  /\ pc = "tickers"
  /\ idx > Len(ticker_list)
  /\ LET valid_tickers == Keys(returns_dict)
         ret_df == DataFrame(returns_dict)
     IN  correlations' = MatrixLoop(valid_tickers, ret_df, 0, << >>)
  /\ pc' = "spy_corr"
  /\ UNCHANGED <<df, spy_ret, spy_dates, spy_returns, idx, returns_dict,
                 ticker_data, stdout, exit_code, file, writes, run>>

\* Lines 177-184: the benchmark correlations.
SpyCorrelations ==
  /\ pc = "spy_corr"
  /\ correlations' = SpyLoop(Keys(returns_dict), returns_dict, spy_ret, 1, correlations)
  /\ pc' = "write"
  /\ UNCHANGED <<df, spy_ret, spy_dates, spy_returns, idx, returns_dict,
                 ticker_data, stdout, exit_code, file, writes, run>>

\* Lines 186-198: assemble and write the document; main() returns.
Write ==
  /\ pc = "write"
  /\ \E now \in Today :
       file' = <<json_dump(Document(now, spy_dates, spy_returns,
                                    ticker_data, correlations))>>
  /\ writes' = writes + 1
  /\ stdout' = Append(stdout, <<"Saved", "tickers + correlations">>)
  /\ exit_code' = {0}
  /\ pc' = "exit"
  /\ UNCHANGED <<df, spy_ret, spy_dates, spy_returns, idx, returns_dict,
                 ticker_data, correlations, run>>

\* The job is started again and the provider returns the same frame; the
\* file of the earlier run is still on disk.
Rerun ==
  /\ pc = "exit"
  /\ run < MaxRuns
  /\ run' = run + 1
  /\ pc' = "fetched"
  /\ spy_ret' = << >>
  /\ spy_dates' = << >>
  /\ spy_returns' = << >>
  /\ idx' = 1
  /\ returns_dict' = << >>
  /\ ticker_data' = << >>
  /\ correlations' = << >>
  /\ stdout' = << >>
  /\ exit_code' = {}
  /\ writes' = 0
  /\ UNCHANGED <<df, file>>

Next ==
  \/ Download
  \/ AbortEmpty
  \/ ProcessSpy
  \/ ProcessTicker
  \/ CorrelationMatrix
  \/ SpyCorrelations
  \/ Write

Spec == Init /\ [][Next]_vars

NextRerun == Next \/ Rerun

SpecRerun == Init /\ [][NextRerun]_vars

(* ------------------------------------------------------------------ *)
(* What the properties speak of                                       *)
(* ------------------------------------------------------------------ *)

\* The months for which a column holds a price, read off the frame.
ObsMonths(col) ==
  IF col.kind # "ok" THEN {}
  ELSE {m \in Months : col.rows[m].v.kind # "nan"}

ObsCount(col) == Cardinality(ObsMonths(col))

\* The benchmark column cannot be processed.
SpyFails == df.close["SPY"].kind \in {"absent", "bad"}

\* The registry symbols named on the progress lines, in the order printed.
VisitedTickers ==
  LET lines == SelectSeq(stdout, LAMBDA line : line[1] \in TickerSet)
  IN  [k \in 1..Len(lines) |-> lines[k][1]]

\* No step after the download has touched the benchmark or a symbol.
NothingProcessed ==
  /\ \A k \in 1..Len(stdout) : stdout[k][1] \notin ({"SPY"} \cup TickerSet)
  /\ spy_ret = << >> /\ spy_dates = << >> /\ spy_returns = << >>
  /\ idx = 1
  /\ ticker_data = << >> /\ returns_dict = << >> /\ correlations = << >>

NothingWritten == writes = 0 /\ file = << >>

(* ------------------------------------------------------------------ *)
(* C1                                                                 *)
(* ------------------------------------------------------------------ *)

\* C1: when the download returns an empty frame, the next step ends the
\* process with exit status 1; neither the benchmark nor any registry
\* symbol is processed and no document is written in that run.
C1_EmptyFetchAborts ==
  (pc # "start" /\ df.empty) =>
     /\ pc \in {"fetched", "exit"}
     /\ pc = "fetched" => ENABLED AbortEmpty
     /\ pc = "exit" => exit_code = {1}
     /\ NothingProcessed
     /\ NothingWritten

C1_Witness == pc = "exit" /\ df.empty /\ exit_code = {1} /\ Len(stdout) = 1

(* ------------------------------------------------------------------ *)
(* C2                                                                 *)
(* ------------------------------------------------------------------ *)

Skipped(col) == col.kind \in {"absent", "bad"} \/ ObsCount(col) < MinMonths

\* While the job runs past the benchmark the symbols are visited in
\* registry order, whatever their columns hold, and the process does not
\* end before the document is written once, with exit status 0.
C3_Progress ==
  (pc # "start" /\ ~df.empty /\ ~SpyFails /\ pc # "fetched") =>
     /\ VisitedTickers = SubSeq(ticker_list, 1, idx - 1)
     /\ pc # "exit" => exit_code = {} /\ writes = 0
     /\ pc = "exit" =>
          /\ exit_code = {0}
          /\ writes = 1 /\ Len(file) = 1
          /\ VisitedTickers = ticker_list

\* The iteration over a skipped symbol adds no entry, keeps the entries
\* built so far, and moves on to the next symbol.
C3_SkipStep ==
  (pc = "tickers" /\ idx <= Len(ticker_list) /\ Skipped(df.close[ticker_list[idx]])) =>
     /\ ticker_data' = ticker_data
     /\ returns_dict' = returns_dict
     /\ pc' = "tickers"
     /\ idx' = idx + 1
     /\ exit_code' = {}

\* C3: a registry symbol that is missing from the frame, has fewer than
\* 24 prices or raises while processed never ends the job: every registry
\* symbol is still visited in registry order, the document is written
\* exactly once at the end with exit status 0, and the skipped symbol adds
\* no entry and changes none of the entries already built.
C3_SymbolFailureNeverAborts == [](C3_Progress) /\ [][C3_SkipStep]_vars

C3_Witness ==
  /\ pc = "exit" /\ exit_code = {0} /\ writes = 1
  /\ df.close[ticker_list[1]].kind = "bad"
  /\ KeySet(ticker_data) = {ticker_list[2]}

(* ------------------------------------------------------------------ *)
(* The output, as held in memory and as written                       *)
(* ------------------------------------------------------------------ *)

Symbols == {"SPY"} \cup TickerSet

\* The members of the written document; empty while no file exists.
OutTickers == IF file = << >> THEN << >> ELSE Get(file[1], "tickers")

OutCorrelations == IF file = << >> THEN << >> ELSE Get(file[1], "correlations")

\* The symbols a pair key names.
Named(key) ==
  {s \in Symbols : \E o \in Symbols : key = PairKey(s, o) \/ key = PairKey(o, s)}

\* Where x stands in the sequence seq.
Position(seq, x) == CHOOSE k \in 1..Len(seq) : seq[k] = x

(* ------------------------------------------------------------------ *)
(* C4                                                                 *)
(* ------------------------------------------------------------------ *)

\* For a tickers map and a correlations map: no symbol with fewer than 24
\* prices in the frame is a key of tickers or is named in a key of
\* correlations, and every key of correlations names symbols, all of
\* which, the benchmark aside, are keys of tickers.
ShortExcluded(tickers, corrs) ==
  /\ \A s \in TickerSet :
       ObsCount(df.close[s]) < MinMonths =>
          /\ s \notin KeySet(tickers)
          /\ \A key \in KeySet(corrs) : s \notin Named(key)
  /\ \A s \in KeySet(tickers) : s \in TickerSet /\ ObsCount(df.close[s]) >= MinMonths
  /\ \A key \in KeySet(corrs) :
       /\ Named(key) # {}
       /\ Named(key) \ {"SPY"} \subseteq KeySet(tickers)

\* C4: a registry symbol with fewer than 24 prices is no key of tickers
\* and is named in no key of correlations, symbol pair or benchmark pair;
\* so every key of tickers has at least 24 prices and every symbol named in
\* correlations, other than the benchmark, is a key of tickers.  This holds
\* of the maps in memory at every step and of the written document.
C4_ShortHistoryExcluded ==
  /\ ShortExcluded(ticker_data, correlations)
  /\ ShortExcluded(OutTickers, OutCorrelations)

C4_Witness ==
  /\ pc = "exit" /\ exit_code = {0}
  /\ ObsCount(df.close[ticker_list[1]]) = MinMonths - 1
  /\ KeySet(OutTickers) = {ticker_list[2]}
  /\ KeySet(OutCorrelations) = {PairKey("SPY", ticker_list[2])}

(* ------------------------------------------------------------------ *)
(* C5                                                                 *)
(* ------------------------------------------------------------------ *)

\* For a tickers map and a correlations map: no key pairs a symbol with
\* itself, no two keys hold the same pair in both orders, no key is held
\* twice, and a key of two registry symbols puts first the one that comes
\* first among the keys of tickers.
TriangleOnly(tickers, corrs) ==
  /\ Cardinality(KeySet(corrs)) = Len(corrs)
  /\ \A a \in Symbols, b \in Symbols :
       /\ PairKey(a, a) \notin KeySet(corrs)
       /\ ~(PairKey(a, b) \in KeySet(corrs) /\ PairKey(b, a) \in KeySet(corrs))
       /\ (a \in TickerSet /\ b \in TickerSet /\ PairKey(a, b) \in KeySet(corrs)) =>
             /\ a \in KeySet(tickers) /\ b \in KeySet(tickers)
             /\ Position(Keys(tickers), a) < Position(Keys(tickers), b)

\* C5: correlations never holds both "A,B" and "B,A" nor a self pair
\* "A,A"; a key "A,B" of two symbols is only there when A comes strictly
\* before B in the order of the valid symbols.
C5_UpperTriangleOnly ==
  /\ TriangleOnly(returns_dict, correlations)
  /\ TriangleOnly(OutTickers, OutCorrelations)

C5_Witness ==
  /\ pc = "exit"
  /\ PairKey(ticker_list[1], ticker_list[2]) \in KeySet(OutCorrelations)
  /\ Len(OutCorrelations) = 3

(* ------------------------------------------------------------------ *)
(* C6                                                                 *)
(* ------------------------------------------------------------------ *)

\* The period labels a list of dates holds.
Labels(dates) == {dates[k] : k \in 1..Len(dates)}

\* How many periods the benchmark's dates and a symbol's dates share.
CommonPeriods(spyDates, tickers, s) ==
  Cardinality(Labels(spyDates) \cap Labels(Get(Get(tickers, s), "dates")))

BenchmarkGate(spyDates, tickers, corrs) ==
  \A s \in TickerSet :
     PairKey("SPY", s) \in KeySet(corrs) =>
        /\ s \in KeySet(tickers)
        /\ CommonPeriods(spyDates, tickers, s) >= MinOverlap + 1

\* C6: a key "SPY,<symbol>" is only there when the benchmark's and the
\* symbol's return series share at least 13 periods; with 12 or fewer it
\* is absent.
C6_BenchmarkNeedsThirteen ==
  /\ BenchmarkGate(spy_dates, ticker_data, correlations)
  /\ file # << >> =>
       BenchmarkGate(Get(Get(file[1], "spy"), "dates"), OutTickers, OutCorrelations)

C6_Witness ==
  /\ pc = "exit"
  /\ \E s \in TickerSet :
       /\ PairKey("SPY", s) \in KeySet(OutCorrelations)
       /\ CommonPeriods(spy_dates, OutTickers, s) = MinOverlap + 1

(* ------------------------------------------------------------------ *)
(* C7                                                                 *)
(* ------------------------------------------------------------------ *)

\* A finite number between -1 and 1
InUnit(v) == v.kind = "num" /\ v.den > 0 /\ -v.den <= v.num /\ v.num <= v.den

\* Over the periods two series share, one of them never moves (or they
\* share none): Pearson's coefficient is undefined.
Undefined(a, b) ==
  LET common == IndexOf(a) \cap IndexOf(b)
  IN  \/ \A t \in common, u \in common : ValueAt(a, t) = ValueAt(a, u)
      \/ \A t \in common, u \in common : ValueAt(b, t) = ValueAt(b, u)

\* C7: every value of correlations is a finite number in [-1, 1], in
\* memory and in the written document; a pair of symbols, or the benchmark
\* and a symbol, whose coefficient is undefined has no key at all.
C7_FiniteCoefficients ==
  /\ \A k \in 1..Len(correlations) : InUnit(correlations[k][2])
  /\ \A k \in 1..Len(OutCorrelations) : InUnit(OutCorrelations[k][2])
  /\ \A a \in KeySet(returns_dict), b \in KeySet(returns_dict) :
       Undefined(Get(returns_dict, a), Get(returns_dict, b)) =>
          PairKey(a, b) \notin KeySet(correlations)
  /\ \A a \in KeySet(returns_dict) :
       Undefined(spy_ret, Get(returns_dict, a)) =>
          PairKey("SPY", a) \notin KeySet(correlations)

C7_Witness ==
  /\ pc = "exit" /\ Len(returns_dict) = 2
  /\ Undefined(Get(returns_dict, ticker_list[1]), Get(returns_dict, ticker_list[2]))
  /\ Undefined(spy_ret, Get(returns_dict, ticker_list[1]))
  /\ \E k \in 1..Len(OutCorrelations) :
       /\ OutCorrelations[k][2].num # 0
       /\ OutCorrelations[k][2].den > 1

(* ------------------------------------------------------------------ *)
(* C10                                                                *)
(* ------------------------------------------------------------------ *)

\* How often key stands in the map d.
Occurrences(d, key) == Cardinality({k \in 1..Len(d) : d[k][1] = key})

\* The periods the return series of two symbols share.
SharedPeriods(a, b) == IndexOf(Get(returns_dict, a)) \cap IndexOf(Get(returns_dict, b))

\* Every two distinct valid symbols with a defined coefficient have exactly
\* one key in corrs, whatever the number of periods they share.
EveryDefinedPair(corrs) ==
  \A a \in KeySet(returns_dict), b \in KeySet(returns_dict) :
     (a # b /\ ~Undefined(Get(returns_dict, a), Get(returns_dict, b))) =>
        Occurrences(corrs, PairKey(a, b)) + Occurrences(corrs, PairKey(b, a)) = 1

\* C10: once the symbol matrix is computed, every two distinct symbols of
\* tickers whose pairwise-complete Pearson coefficient is defined have
\* exactly one key in correlations for the unordered pair, also when they
\* share 12 periods or fewer; so it is in the written document.
C10_NoGateForSymbolPairs ==
  /\ pc \in {"spy_corr", "write", "exit"} =>
        /\ KeySet(returns_dict) = KeySet(ticker_data)
        /\ EveryDefinedPair(correlations)
  /\ file # << >> => EveryDefinedPair(OutCorrelations)

C10_Witness ==
  /\ pc = "exit" /\ Len(returns_dict) = 2
  /\ SharedPeriods(ticker_list[1], ticker_list[2]) # {}
  /\ Cardinality(SharedPeriods(ticker_list[1], ticker_list[2])) <= MinOverlap
  /\ PairKey(ticker_list[1], ticker_list[2]) \in KeySet(OutCorrelations)
  /\ \E s \in KeySet(returns_dict) :
       /\ ~Undefined(spy_ret, Get(returns_dict, s))
       /\ PairKey("SPY", s) \notin KeySet(OutCorrelations)

(* ------------------------------------------------------------------ *)
(* C8                                                                 *)
(* ------------------------------------------------------------------ *)

\* The months of a column's non-missing prices, in order, read off the frame
Observed(col) == SortedSeq(ObsMonths(col))

\* r is a number of 4 decimals within half a unit of the last place of
\* (p1 / p0 - 1) * 100, for prices p1 and p0 > 0.
IsRounded4(r, p1, p0) ==
  /\ r.kind = "num" /\ r.den > 0 /\ Pow10(4) % r.den = 0
  /\ LET units == r.num * (Pow10(4) \div r.den)
         den == p1.den * p0.num
         diff == p1.num * p0.den - p1.den * p0.num
     IN  Abs(2 * units * den - 2 * diff * Pow10(6)) <= den

\* The k-th return of a column carries the year-month of the (k+1)-th
\* observation and the rounded percentage change from the k-th to it.
LabelledAndValued(col, dates, returns) ==
  LET obs == Observed(col)
  IN  \A k \in 1..Len(dates) :
         /\ k + 1 <= Len(obs)
         /\ dates[k] = strftime(col.rows[obs[k + 1]].t)
         /\ IsRounded4(returns[k], col.rows[obs[k + 1]].v, col.rows[obs[k]].v)

\* As stated: both lists have length n - 1.
DerivedAsStated(col, dates, returns) ==
  /\ Len(dates) = Len(Observed(col)) - 1
  /\ Len(returns) = Len(Observed(col)) - 1
  /\ LabelledAndValued(col, dates, returns)

\* As the code derives them: length n - 1, and 0 for a column of no price.
Derived(col, dates, returns) ==
  /\ Len(dates) = (IF Observed(col) = << >> THEN 0 ELSE Len(Observed(col)) - 1)
  /\ Len(returns) = Len(dates)
  /\ LabelledAndValued(col, dates, returns)

\* The benchmark's series has been built.
SpyProcessed == pc \in {"tickers", "spy_corr", "write", "exit"} /\ exit_code # {1}

Body(doc) == SelectSeq(doc, LAMBDA member : member[1] # "generated")

\* A later run on the same frame ends as the earlier one did.
SameOutcome ==
  (run > 1 /\ pc = "exit") => (exit_code = {0} <=> file # << >>)

\* A write over the file of an earlier run changes at most `generated`.
SameBody ==
  (pc = "write" /\ file # << >>) =>
     /\ Len(file') = 1
     /\ Body(file'[1]) = Body(file[1])
     /\ Keys(file'[1]) = Keys(file[1])

====
